---- MODULE Spec2Model ----
(***************************************************************************)
(* A model of the USFWS goose mark-resight data extract notebook           *)
(* (USFWS_Goose_Mark-Resight_DataExtract): the notebook's cells run once,  *)
(* top to bottom; each cell is one action and `pc' is the next cell.       *)
(*                                                                         *)
(* A pandas DataFrame is a record [cols, dt, rows]: cols is the sequence   *)
(* of column labels, dt gives the time zone ("naive", "UTC", "US/Pacific") *)
(* of every datetime64 column, rows is the sequence of rows, each a        *)
(* function from the column labels to cell values.  Cell values are tagged *)
(* records so that values of different Python types can be compared.       *)
(*                                                                         *)
(* Only the columns some cell reads, exports or tests are modelled; the    *)
(* other pass-through columns of the feature service (objectid, Creator,   *)
(* Editor, SHAPE, FormName, ...) are left out, and of the thirty           *)
(* DuskyCollar slots the first NumCollars are kept.                        *)
(***************************************************************************)
EXTENDS Integers, Sequences, FiniteSets, TLC

VARIABLES
    pc,                               \* the next cell to run, "done" or "failed"
    MetadataLyr,                      \* layer 0 of the feature service (survey events)
    ObservationPointLyr,              \* layer 1 of the feature service (observation points)
    sedfMetadata,
    sedfObservationPoint,
    dfOtherSpeciesBands,
    sedfMetadataYYYY,
    sedfMetadataYYYY_ObservationPoint,
    dfDuskyNeckband,
    dfDuskyNeckbandNWR,
    dfDuskyNeckbandMB,
    dfFlockPivotTemp,
    dfFlockPivot,
    dfCleanMetadata,
    dfFlockLong,
    dfFlockWide,
    todo,                             \* the site names the export loop has still to write
    disk                              \* the files written so far, in the order written

vars == <<pc, MetadataLyr, ObservationPointLyr, sedfMetadata, sedfObservationPoint,
          dfOtherSpeciesBands, sedfMetadataYYYY, sedfMetadataYYYY_ObservationPoint,
          dfDuskyNeckband, dfDuskyNeckbandNWR, dfDuskyNeckbandMB, dfFlockPivotTemp,
          dfFlockPivot, dfCleanMetadata, dfFlockLong, dfFlockWide, todo, disk>>

(***************************************************************************)
(* Bounds of the model.                                                    *)
(***************************************************************************)
MaxEvents == 2
MaxPoints == 2
MaxCount == 2
NumCollars == 2

(***************************************************************************)
(* Cell values.                                                            *)
(***************************************************************************)
Null == [null |-> TRUE]               \* None / NaN / NaT
I(n) == [int |-> n]
S(s) == [str |-> s]
T(n) == [ts |-> n]                    \* a naive datetime: a wall clock, in hours since 2021-01-01 00:00
Aware(n, tz) == [ts |-> n, tz |-> tz] \* a zone-aware datetime: the instant n (UTC hours), shown in zone tz
IsNull(v) == v = Null
NotNull(v) == v # Null

(***************************************************************************)
(* Sequence helpers.                                                       *)
(***************************************************************************)
Range(s) == {s[i] : i \in 1..Len(s)}

RECURSIVE Concat(_)
Concat(ss) == IF ss = <<>> THEN <<>> ELSE Head(ss) \o Concat(Tail(ss))

Map(s, Op(_)) == [i \in 1..Len(s) |-> Op(s[i])]

Index(s, x) == CHOOSE i \in 1..Len(s) : s[i] = x

RECURSIVE Unique(_)
\* pandas Series.unique(): the distinct values in order of first appearance.
Unique(s) ==
    IF s = <<>> THEN <<>>
    ELSE LET u == Unique(SubSeq(s, 1, Len(s) - 1))
             x == s[Len(s)]
         IN IF x \in Range(u) THEN u ELSE Append(u, x)

(***************************************************************************)
(* DataFrames.                                                             *)
(***************************************************************************)
Frame(cols, dt, rows) == [cols |-> cols, dt |-> dt, rows |-> rows]
NoFrame == Frame(<<>>, <<>>, <<>>)    \* a name not yet bound
Empty == <<>>                         \* the empty dt map

Column(df, c) == [i \in 1..Len(df.rows) |-> df.rows[i][c]]
HasColumn(df, c) == c \in Range(df.cols)

RestrictDt(dt, names) == [c \in (DOMAIN dt) \cap names |-> dt[c]]

\* df[[...]]: the listed columns, in the listed order.
Reorder(df, names) ==
    Frame(names, RestrictDt(df.dt, Range(names)),
          [i \in 1..Len(df.rows) |-> [c \in Range(names) |-> df.rows[i][c]]])

\* df[c] = f(row): assign a column, appending it when it is new.
SetColumn(df, c, f(_)) ==
    Frame(IF HasColumn(df, c) THEN df.cols ELSE Append(df.cols, c),
          df.dt,
          [i \in 1..Len(df.rows) |->
              [k \in Range(df.cols) \cup {c} |-> IF k = c THEN f(df.rows[i]) ELSE df.rows[i][k]]])

\* df[mask]: the rows satisfying the mask, in order.
FilterRows(df, keep(_)) == Frame(df.cols, df.dt, SelectSeq(df.rows, keep))

(***************************************************************************)
(* String helpers (column labels are strings).                             *)
(***************************************************************************)
\* The least index at which sub occurs in s, or 0.
Find(s, sub) ==
    LET hits == {i \in 1..(Len(s) - Len(sub) + 1) : SubSeq(s, i, i + Len(sub) - 1) = sub}
    IN IF hits = {} THEN 0 ELSE CHOOSE i \in hits : \A j \in hits : i <= j

Contains(s, sub) == Find(s, sub) # 0
StartsWith(s, prefix) == Len(s) >= Len(prefix) /\ SubSeq(s, 1, Len(prefix)) = prefix

\* str.split(sep) of a label holding sep once: <<before, after>>.
SplitOnce(s, sep) ==
    LET i == Find(s, sep)
    IN <<SubSeq(s, 1, i - 1), SubSeq(s, i + Len(sep), Len(s))>>

(***************************************************************************)
(* Program constants.                                                      *)
(***************************************************************************)
start_date == 5832                    \* "09-01-2021" 00:00, in hours since 2021-01-01 00:00
end_date == 12384                     \* "06-01-2022" 00:00

\* US/Pacific daylight saving time between the two dates: it ends 2021-11-07 09:00 UTC
\* and starts again 2022-03-13 10:00 UTC.
DstEnd == 7449
DstStart == 10474

WA_filter == {S("Willapa NWR"),
              S("Julia Butler Hansen Refuge for the Columbian White-tailed Deer"),
              S("Ridgefield NWR")}
OR_filter == {S("Lewis and Clark NWR"), S("Tualatin River NWR"), S("Wapato Lake NWR"),
              S("Baskett Slough NWR"), S("Ankeny NWR"), S("William L. Finley NWR"),
              S("Nestucca Bay NWR")}
Prepopulated_filter == {S("Ridgefield NWR"), S("Tualatin River NWR"), S("Wapato Lake NWR")}

col_list == <<"DuskyCount", "WuskyCount", "WesternCount", "TavLessCount", "TavCount",
              "LessCount", "AleutianCount", "CacklingCount", "UnknownCanadaCount",
              "UnknownCacklerCount", "WhiteFrontedCount", "SnowCount", "RossCount",
              "UnknownGooseCount", "TrumpeterCount", "TundraCount", "UnknownSwanCount">>

\* The DuskyCollar slots of the observation point layer that the model keeps.
CollarName == <<"DuskyCollar1", "DuskyCollar2", "DuskyCollar3", "DuskyCollar4",
                "DuskyCollar5", "DuskyCollar6", "DuskyCollar7", "DuskyCollar8",
                "DuskyCollar9", "DuskyCollar10", "DuskyCollar11", "DuskyCollar12",
                "DuskyCollar13", "DuskyCollar14", "DuskyCollar15", "DuskyCollar16",
                "DuskyCollar17", "DuskyCollar18", "DuskyCollar19", "DuskyCollar20",
                "DuskyCollar21", "DuskyCollar22", "DuskyCollar23", "DuskyCollar24",
                "DuskyCollar25", "DuskyCollar26", "DuskyCollar27", "DuskyCollar28",
                "DuskyCollar29", "DuskyCollar30">>
CollarCols == SubSeq(CollarName, 1, NumCollars)

(***************************************************************************)
(* The feature service's layers: the columns, and the rows the model       *)
(* draws.  globalid is the service's unique key of a row.                  *)
(***************************************************************************)
MetadataCols == <<"globalid", "SiteName", "Observer", "ObserverOther", "EffortDate",
                  "EffortDate_Text", "CreationDate">>
MetadataDt == [c \in {"EffortDate", "CreationDate"} |-> "naive"]

ObservationPointCols ==
    <<"globalid", "parentglobalid">> \o col_list
    \o <<"Latitude", "Longitude", "Latitude_Prepopulated", "Longitude_Prepopulated",
         "LocationDescription", "LocationOther", "EffortTime", "EffortNotes",
         "DuskyBandNote">>
    \o CollarCols \o <<"CreationDate">>
ObservationPointDt == [c \in {"CreationDate"} |-> "naive"]

OtherSpeciesBandsCols == <<"globalid", "SpeciesText", "BandNote", "parentglobalid",
                           "CreationDate">>

EventId == <<"e1", "e2", "e3", "e4">>
PointId == <<"p1", "p2", "p3", "p4">>
OrphanParent == "e0"                  \* a parentglobalid no survey event has

EventRow(i, site, date) ==
    [globalid |-> S(EventId[i]),
     SiteName |-> site,
     Observer |-> IF i % 2 = 1 THEN S("Other") ELSE S("K. So"),
     ObserverOther |-> IF i % 2 = 1 THEN S("J. Smith") ELSE Null,
     EffortDate |-> T(date),
     EffortDate_Text |-> S("date text"),
     CreationDate |-> T(date + 30)]

\* An event row with the observer selection and the free-text observer given.
EventRowObserved(i, site, date, observer, other) ==
    [EventRow(i, site, date) EXCEPT !["Observer"] = observer, !["ObserverOther"] = other]

\* What a point row holds besides its keys.
Content(counts, latPre, lonPre, lat, collars, note, loc, created) ==
    [counts |-> counts, latPre |-> latPre, lonPre |-> lonPre, lat |-> lat,
     collars |-> collars, note |-> note, loc |-> loc, created |-> created]

PointRow(j, parent, k) ==
    [c \in Range(ObservationPointCols) |->
        CASE c = "globalid" -> S(PointId[j])
          [] c = "parentglobalid" -> S(parent)
          [] c \in Range(col_list) -> k.counts[c]
          [] c = "Latitude" -> k.lat
          [] c = "Longitude" -> I(-12274)
          [] c = "Latitude_Prepopulated" -> k.latPre
          [] c = "Longitude_Prepopulated" -> k.lonPre
          [] c = "LocationDescription" -> k.loc
          [] c = "LocationOther" -> Null
          [] c = "EffortTime" -> S("09:30")
          [] c = "EffortNotes" -> S("windy")
          [] c = "DuskyBandNote" -> k.note
          [] c \in Range(CollarCols) -> k.collars[Index(CollarCols, c)]
          [] c = "CreationDate" -> k.created]

CountVals == {Null} \cup {I(n) : n \in 0..MaxCount}

Counts(dusky, wusky, cackling, rest) ==
    [c \in Range(col_list) |->
        CASE c = "DuskyCount" -> dusky
          [] c = "WuskyCount" -> wusky
          [] c = "CacklingCount" -> cackling
          [] OTHER -> rest]

BaseContent ==
    Content(Counts(I(1), I(0), Null, I(0)), I(4581), I(-12275), I(4580),
            [n \in 1..NumCollars |-> S("a12")], S("leg band"), S("Unit 2"), T(9000))
NullContent ==
    Content(Counts(Null, Null, Null, Null), Null, Null, Null,
            [n \in 1..NumCollars |-> Null], Null, Null, Null)

\* The contents drawn for the one row of a table that varies: each family varies one
\* group of fields of BaseContent over all its values.
CountContents ==
    {[BaseContent EXCEPT !.counts = Counts(d, w, k, r)] :
        d \in CountVals, w \in {Null, I(0), I(1)}, k \in {Null, I(1)}, r \in {Null, I(0)}}
CoordContents ==
    {[BaseContent EXCEPT !.latPre = a, !.lonPre = b, !.lat = m] :
        a \in {Null, I(4581)}, b \in {Null, I(-12275)}, m \in {Null, I(4580)}}
CollarContents ==
    {[BaseContent EXCEPT !.collars = cs, !.note = n, !.loc = l] :
        cs \in [1..NumCollars -> {Null, S("a12")}], n \in {Null, S("leg band")},
        l \in {Null, S("Unit 2")}}
TimeContents ==
    {[BaseContent EXCEPT !.created = t] : t \in {Null, T(6000), T(9000)}}

\* Strictly increasing / non-decreasing index sequences of length <= k over 1..n: the
\* tables are drawn up to the order of their rows.
IncSeqs(n, k) ==
    {s \in UNION {[1..m -> 1..n] : m \in 0..k} : \A i \in 1..(Len(s) - 1) : s[i] < s[i + 1]}
NondecSeqs(n, k) ==
    {s \in UNION {[1..m -> 1..n] : m \in 0..k} : \A i \in 1..(Len(s) - 1) : s[i] <= s[i + 1]}

\* (site, EffortDate) of the events drawn: every date around the two bounds at one
\* site, and one in-range event at every other kind of site.
EventChoices ==
    <<<<S("Ridgefield NWR"), start_date - 12>>, <<S("Ridgefield NWR"), start_date>>,
      <<S("Ridgefield NWR"), 9000>>, <<S("Ridgefield NWR"), end_date>>,
      <<S("Ridgefield NWR"), end_date + 12>>, <<S("Ankeny NWR"), 9000>>,
      <<S("Unknown Refuge"), 9000>>, <<Null, 9000>>>>

EventTables ==
    {[i \in 1..Len(s) |-> EventRow(i, EventChoices[s[i]][1], EventChoices[s[i]][2])] :
        s \in IncSeqs(Len(EventChoices), MaxEvents)}

Parents == Append(SubSeq(EventId, 1, MaxEvents), OrphanParent)

\* Tables of rows alike but for their parent event.
JoinTables ==
    {[j \in 1..Len(s) |-> PointRow(j, Parents[s[j]], BaseContent)] :
        s \in NondecSeqs(Len(Parents), MaxPoints)}

\* Tables of one varying row of event e1 followed by rows that are base or all null.
Companions == <<BaseContent, NullContent>>
ContentTables(contents) ==
    {<<PointRow(1, EventId[1], k)>>
        \o [j \in 1..Len(s) |-> PointRow(j + 1, EventId[1], Companions[s[j]])] :
        k \in contents, s \in NondecSeqs(Len(Companions), MaxPoints - 1)}

OneEvent(site) == <<EventRow(1, site, 9000)>>

\* <<Observer, ObserverOther>> of the events drawn besides those of EventRow.
ObserverChoices ==
    {<<S("Other"), Null>>, <<S("K. So"), S("J. Smith")>>, <<Null, S("J. Smith")>>,
     <<S("other"), S("J. Smith")>>, <<Null, Null>>}
ObserverTables ==
    {<<EventRowObserved(1, S("Ridgefield NWR"), 9000, o[1], o[2]),
       EventRowObserved(2, S("Ankeny NWR"), 9000, S("Other"), S("J. Smith"))>> :
        o \in ObserverChoices}

\* The inputs: <<survey events, observation points>>.
Inputs ==
    (EventTables \X JoinTables)
    \cup ({OneEvent(S("Ridgefield NWR"))} \X ContentTables(CountContents \cup CollarContents \cup TimeContents))
    \cup ({OneEvent(S("Ridgefield NWR")), OneEvent(S("Ankeny NWR"))} \X ContentTables(CoordContents))
    \cup (ObserverTables \X {<<PointRow(1, EventId[1], BaseContent),
                                PointRow(2, EventId[2], BaseContent)>>})

OtherSpeciesBandsTable ==
    Frame(OtherSpeciesBandsCols, [c \in {"CreationDate"} |-> "naive"],
          <<[globalid |-> S("b1"), SpeciesText |-> S("Tundra Swan"), BandNote |-> Null,
             parentglobalid |-> S("e1"), CreationDate |-> T(9000)]>>)

(***************************************************************************)
(* Cell 2: change_timezone_of_field.                                       *)
(***************************************************************************)
\* pytz: the UTC offset, in hours, of zone tz at instant t.
UtcOffset(tz, t) ==
    IF tz = "US/Pacific" THEN (IF t < DstEnd \/ t >= DstStart THEN -7 ELSE -8) ELSE 0

ZoneAbbr(tz, t) ==
    IF tz = "US/Pacific" THEN (IF t < DstEnd \/ t >= DstStart THEN "PDT" ELSE "PST") ELSE "UTC"

\* Series.dt.tz_localize(tz) of a naive value: the instant whose wall clock in tz it is.
tz_localize(v, tz) == IF IsNull(v) THEN Null ELSE Aware(v.ts - UtcOffset(tz, v.ts), tz)

\* Series.dt.tz_convert(tz) of an aware value: the same instant, shown in tz.
tz_convert(v, tz) == IF IsNull(v) THEN Null ELSE Aware(v.ts, tz)

\* (mutant) the conversion written back to the source field as well as to the new one.
change_timezone_in_place(df, source_date_time_field, new_date_time_field_suffix, source_timezone, new_timezone) ==
    LET new_date_time_field == source_date_time_field \o new_date_time_field_suffix
        converted(r) == tz_convert(tz_localize(r[source_date_time_field], source_timezone),
                                   new_timezone)
    IN Frame(IF HasColumn(df, new_date_time_field) THEN df.cols
             ELSE Append(df.cols, new_date_time_field),
             [c \in (DOMAIN df.dt) \cup {new_date_time_field} |->
                 IF c \in {new_date_time_field, source_date_time_field} THEN new_timezone
                 ELSE df.dt[c]],
             [i \in 1..Len(df.rows) |->
                 [c \in Range(df.cols) \cup {new_date_time_field} |->
                     IF c \in {new_date_time_field, source_date_time_field}
                     THEN converted(df.rows[i])
                     ELSE df.rows[i][c]]])

change_timezone_of_field(df, source_date_time_field, new_date_time_field_suffix, source_timezone, new_timezone) ==
    LET new_date_time_field == source_date_time_field \o new_date_time_field_suffix
        localized(r) == tz_localize(r[source_date_time_field], source_timezone)
    IN Frame(IF HasColumn(df, new_date_time_field) THEN df.cols
             ELSE Append(df.cols, new_date_time_field),
             [c \in (DOMAIN df.dt) \cup {new_date_time_field} |->
                 IF c = new_date_time_field THEN new_timezone
                 ELSE IF c = source_date_time_field THEN source_timezone
                 ELSE df.dt[c]],
             [i \in 1..Len(df.rows) |->
                 [c \in Range(df.cols) \cup {new_date_time_field} |->
                     IF c = new_date_time_field
                     THEN tz_convert(localized(df.rows[i]), new_timezone)
                     ELSE IF c = source_date_time_field THEN localized(df.rows[i])
                     ELSE df.rows[i][c]]])

\* Cell 11: the loop over the columns of dtype datetime64[ns] of one table.
RECURSIVE ConvertAll(_, _)
ConvertAll(df, columns) ==
    IF columns = <<>> THEN df
    ELSE ConvertAll(IF Head(columns) \in DOMAIN df.dt /\ df.dt[Head(columns)] = "naive"
                    THEN change_timezone_of_field(df, Head(columns), "_Pacific", "UTC",
                                                  "US/Pacific")
                    ELSE df,
                    Tail(columns))

(***************************************************************************)
(* Cell 3: archive_dt_field.  The text '%m/%d/%Y %H:%M:%S %Z%z' of an      *)
(* instant is modelled by what it shows: the wall clock, the zone          *)
(* abbreviation and the offset.                                            *)
(***************************************************************************)
strftime(v) ==
    IF IsNull(v) THEN Null
    ELSE [text |-> <<v.ts + UtcOffset(v.tz, v.ts), ZoneAbbr(v.tz, v.ts), UtcOffset(v.tz, v.ts)>>]

archive_dt_field(df) ==
    LET archive_dt_field_list == {c \in DOMAIN df.dt : df.dt[c] \in {"UTC", "US/Pacific"}}
    IN Frame(df.cols,
             [c \in (DOMAIN df.dt) \ archive_dt_field_list |-> df.dt[c]],
             [i \in 1..Len(df.rows) |->
                 [c \in Range(df.cols) |->
                     IF c \in archive_dt_field_list THEN strftime(df.rows[i][c])
                     ELSE df.rows[i][c]]])

(***************************************************************************)
(* Cell 4: upper_consistent.                                               *)
(***************************************************************************)
Lower == "abcdefghijklmnopqrstuvwxyz"
Capital == "ABCDEFGHIJKLMNOPQRSTUVWXYZ"

RECURSIVE StrUpper(_)
StrUpper(s) ==
    IF Len(s) = 0 THEN s
    ELSE LET ch == SubSeq(s, 1, 1)
             i == Find(Lower, ch)
         IN (IF i = 0 THEN ch ELSE SubSeq(Capital, i, i)) \o StrUpper(SubSeq(s, 2, Len(s)))

\* A column is of dtype object when it holds text.
IsObject(df, c) == \E i \in 1..Len(df.rows) : "str" \in DOMAIN df.rows[i][c]

upper_consistent(df) ==
    Frame(df.cols, df.dt,
          [i \in 1..Len(df.rows) |->
              [c \in Range(df.cols) |->
                  LET v == df.rows[i][c]
                  IN IF IsObject(df, c)
                     THEN (IF "str" \in DOMAIN v THEN S(StrUpper(v.str)) ELSE Null)
                     ELSE v]])

(***************************************************************************)
(* pyjanitor and pandas operations the cells call.                         *)
(***************************************************************************)
\* (mutant) filter_date with both bounds exclusive.
filter_date_exclusive(df, column_name, start, end) ==
    FilterRows(df, LAMBDA r : /\ NotNull(r[column_name])
                              /\ r[column_name].ts > start
                              /\ r[column_name].ts < end)

\* pyjanitor filter_date(column, start, end): start <= value and value <= end.
filter_date(df, column_name, start, end) ==
    FilterRows(df, LAMBDA r : /\ NotNull(r[column_name])
                              /\ r[column_name].ts >= start
                              /\ r[column_name].ts <= end)

\* df.loc[mask, c] = f(row): rows outside the mask keep their value, which is null
\* when the column is new.
LocAssign(df, mask(_), c, f(_)) ==
    Frame(IF HasColumn(df, c) THEN df.cols ELSE Append(df.cols, c),
          df.dt,
          [i \in 1..Len(df.rows) |->
              [k \in Range(df.cols) \cup {c} |->
                  IF k # c THEN df.rows[i][k]
                  ELSE IF mask(df.rows[i]) THEN f(df.rows[i])
                  ELSE IF HasColumn(df, c) THEN df.rows[i][c]
                  ELSE Null]])

\* pd.merge(left, right, how="inner", left_on, right_on): a row for every pair of equal
\* keys, in the order of the left rows; a label of both tables gets the suffix _x or _y.
LeftLabel(left, right, c) == IF HasColumn(right, c) THEN c \o "_x" ELSE c
RightLabel(left, right, c) == IF HasColumn(left, c) THEN c \o "_y" ELSE c

MergedRow(left, right, l, r) ==
    [c \in {LeftLabel(left, right, k) : k \in Range(left.cols)}
           \cup {RightLabel(left, right, k) : k \in Range(right.cols)} |->
        IF \E k \in Range(left.cols) : LeftLabel(left, right, k) = c
        THEN l[CHOOSE k \in Range(left.cols) : LeftLabel(left, right, k) = c]
        ELSE r[CHOOSE k \in Range(right.cols) : RightLabel(left, right, k) = c]]

\* (mutant) how="left": a left row without a match is kept, with nulls on the right.
merge_left(left, right, left_on, right_on) ==
    Frame([i \in 1..Len(left.cols) |-> LeftLabel(left, right, left.cols[i])]
              \o [i \in 1..Len(right.cols) |-> RightLabel(left, right, right.cols[i])],
          Empty,
          Concat([i \in 1..Len(left.rows) |->
                     LET l == left.rows[i]
                         matches == SelectSeq(right.rows, LAMBDA r : r[right_on] = l[left_on])
                     IN IF matches = <<>>
                        THEN <<MergedRow(left, right, l, [c \in Range(right.cols) |-> Null])>>
                        ELSE [j \in 1..Len(matches) |->
                                 MergedRow(left, right, l, matches[j])]]))

merge(left, right, left_on, right_on) ==
    Frame([i \in 1..Len(left.cols) |-> LeftLabel(left, right, left.cols[i])]
              \o [i \in 1..Len(right.cols) |-> RightLabel(left, right, right.cols[i])],
          Empty,
          Concat([i \in 1..Len(left.rows) |->
                     LET l == left.rows[i]
                         matches == SelectSeq(right.rows, LAMBDA r : r[right_on] = l[left_on])
                     IN [j \in 1..Len(matches) |-> MergedRow(left, right, l, matches[j])]]))

\* (mutant) cell 18 without its dropna: no column is dropped.
dropna_columns_none(df) == df

\* DataFrame.dropna(how='all', axis=1): drop the columns with no non-null value.
dropna_columns(df) ==
    Reorder(df, SelectSeq(df.cols, LAMBDA c : \E i \in 1..Len(df.rows) : NotNull(df.rows[i][c])))

\* DataFrame.dropna(): drop the rows with a null value.
dropna(df) == FilterRows(df, LAMBDA r : \A c \in Range(df.cols) : NotNull(r[c]))

\* pyjanitor select_columns: every entry is a label or, ending in '*', a shell-style
\* pattern; the matches of an entry come in the table's column order.
IsPattern(entry) == Len(entry) > 0 /\ SubSeq(entry, Len(entry), Len(entry)) = "*"
Matches(df, entry) ==
    IF IsPattern(entry)
    THEN SelectSeq(df.cols, LAMBDA c : StartsWith(c, SubSeq(entry, 1, Len(entry) - 1)))
    ELSE SelectSeq(df.cols, LAMBDA c : c = entry)

\* It raises KeyError when an entry matches no column.
CanSelect(df, search) == \A i \in 1..Len(search) : Matches(df, search[i]) # <<>>
select_columns(df, search) ==
    Reorder(df, Concat([i \in 1..Len(search) |-> Matches(df, search[i])]))

\* pyjanitor rename_columns(new_column_names): check_column raises ValueError when a
\* key is no column of the table.
CanRename(df, new_column_names) == \A k \in DOMAIN new_column_names : HasColumn(df, k)
NewLabel(new_column_names, c) ==
    IF c \in DOMAIN new_column_names THEN new_column_names[c] ELSE c
rename_columns(df, new_column_names) ==
    Frame([i \in 1..Len(df.cols) |-> NewLabel(new_column_names, df.cols[i])],
          Empty,
          [i \in 1..Len(df.rows) |->
              [c \in {NewLabel(new_column_names, k) : k \in Range(df.cols)} |->
                  df.rows[i][CHOOSE k \in Range(df.cols) : NewLabel(new_column_names, k) = c]]])

(***************************************************************************)
(* The cells of the pipeline, as functions of the tables they read.        *)
(***************************************************************************)
timestamp == "2022-06-02_1200"        \* cell 8: the time of the run

\* (mutant) the free-text observer taken whenever there is one, whatever the selection.
PopulateObserverTextCoalesce(df) ==
    LocAssign(SetColumn(df, "ObserverText", LAMBDA r : r["Observer"]),
              LAMBDA r : NotNull(r["ObserverOther"]), "ObserverText",
              LAMBDA r : r["ObserverOther"])

\* Cell 13.
PopulateObserverText(df) ==
    LocAssign(SetColumn(df, "ObserverText", LAMBDA r : r["Observer"]),
              LAMBDA r : r["Observer"] = S("Other"), "ObserverText",
              LAMBDA r : r["ObserverOther"])

\* df.loc[mask, c] = scalar, c a new column: pandas raises ValueError ("cannot set a
\* frame with no defined index and a scalar") when the table has no row.
CanAssignScalar(df, c) == HasColumn(df, c) \/ df.rows # <<>>

\* (mutant) every site outside the WA set taken for an Oregon site.
PopulateStateElse(df) ==
    LocAssign(LocAssign(df, LAMBDA r : r["SiteName"] \in WA_filter, "State",
                        LAMBDA r : S("WA")),
              LAMBDA r : r["SiteName"] \notin WA_filter, "State", LAMBDA r : S("OR"))

\* Cell 14.
PopulateState(df) ==
    LocAssign(LocAssign(df, LAMBDA r : r["SiteName"] \in WA_filter, "State",
                        LAMBDA r : S("WA")),
              LAMBDA r : r["SiteName"] \in OR_filter, "State", LAMBDA r : S("OR"))

\* (mutant) cell 16 without its third and fourth assignment, the fall back to the
\* measured value at a prepopulated site.
PopulateLatLongNoFallback(df) ==
    LET InSet(r) == r["SiteName"] \in Prepopulated_filter
        a1 == LocAssign(df, LAMBDA r : InSet(r) /\ NotNull(r["Latitude_Prepopulated"]),
                        "LatitudeDD", LAMBDA r : r["Latitude_Prepopulated"])
        a2 == LocAssign(a1, LAMBDA r : InSet(r) /\ NotNull(r["Longitude_Prepopulated"]),
                        "LongitudeDD", LAMBDA r : r["Longitude_Prepopulated"])
        a5 == LocAssign(a2, LAMBDA r : ~InSet(r), "LatitudeDD", LAMBDA r : r["Latitude"])
    IN LocAssign(a5, LAMBDA r : ~InSet(r), "LongitudeDD", LAMBDA r : r["Longitude"])

\* Cell 16: the six assignments, in order.
PopulateLatLong(df) ==
    LET InSet(r) == r["SiteName"] \in Prepopulated_filter
        a1 == LocAssign(df, LAMBDA r : InSet(r) /\ NotNull(r["Latitude_Prepopulated"]),
                        "LatitudeDD", LAMBDA r : r["Latitude_Prepopulated"])
        a2 == LocAssign(a1, LAMBDA r : InSet(r) /\ NotNull(r["Longitude_Prepopulated"]),
                        "LongitudeDD", LAMBDA r : r["Longitude_Prepopulated"])
        a3 == LocAssign(a2, LAMBDA r : InSet(r) /\ IsNull(r["Latitude_Prepopulated"]),
                        "LatitudeDD", LAMBDA r : r["Latitude"])
        a4 == LocAssign(a3, LAMBDA r : InSet(r) /\ IsNull(r["Longitude_Prepopulated"]),
                        "LongitudeDD", LAMBDA r : r["Longitude"])
        a5 == LocAssign(a4, LAMBDA r : ~InSet(r), "LatitudeDD", LAMBDA r : r["Latitude"])
    IN LocAssign(a5, LAMBDA r : ~InSet(r), "LongitudeDD", LAMBDA r : r["Longitude"])

\* Cell 17: DataFrame.sum(axis=1) skips the null values.
RECURSIVE SumSkipNa(_, _)
\* (mutant) sum(axis=1, skipna=False) read as 0: one null count voids the row's total.
SumNoSkip(r, columns) ==
    IF \E i \in 1..Len(columns) : IsNull(r[columns[i]]) THEN 0
    ELSE IF columns = <<>> THEN 0
    ELSE r[Head(columns)].int + SumSkipNa(r, Tail(columns))
SumSkipNa(r, columns) ==
    IF columns = <<>> THEN 0
    ELSE (IF IsNull(r[Head(columns)]) THEN 0 ELSE r[Head(columns)].int)
         + SumSkipNa(r, Tail(columns))

PopulateTotal(df) == SetColumn(df, "Total", LAMBDA r : I(SumSkipNa(r, col_list)))

\* Cell 18: the column order of dfDuskyNeckband.
NeckbandOrder ==
    <<"globalid_x", "SiteName", "Observer", "ObserverOther", "ObserverText", "State",
      "EffortDate", "EffortDate_Text", "CreationDate_x", "AleutianCount", "CacklingCount",
      "CreationDate_y", "DuskyBandNote">>
    \o CollarCols
    \o <<"DuskyCount", "EffortNotes", "EffortTime", "Latitude", "Latitude_Prepopulated",
         "LessCount", "LocationDescription", "LocationOther", "Longitude",
         "Longitude_Prepopulated", "RossCount", "SnowCount", "TavCount", "TavLessCount",
         "TrumpeterCount", "TundraCount", "UnknownCacklerCount", "UnknownCanadaCount",
         "UnknownGooseCount", "UnknownSwanCount", "WesternCount", "WhiteFrontedCount",
         "WuskyCount", "globalid_y", "parentglobalid", "CreationDate_Pacific",
         "LatitudeDD", "LongitudeDD", "Total">>

\* Series.str.cat(other, sep=" ", na_rep=""): a null on either side reads as "".
StrOrEmpty(v) == IF IsNull(v) THEN "" ELSE v.str
str_cat(a, b) == S(StrOrEmpty(a) \o " " \o StrOrEmpty(b))

\* Cell 18 up to the Location column, which reads the SiteName and LocationDescription
\* attributes of the table: AttributeError when dropna has dropped one of them.
DroppedNeckband(df) == dropna_columns(Reorder(df, NeckbandOrder))
CanBuildNeckband(df) ==
    /\ \A c \in Range(NeckbandOrder) : HasColumn(df, c)
    /\ HasColumn(DroppedNeckband(df), "SiteName")
    /\ HasColumn(DroppedNeckband(df), "LocationDescription")
BuildNeckband(df) ==
    SetColumn(SetColumn(DroppedNeckband(df), "Prec", LAMBDA r : S("0")),
              "Location", LAMBDA r : str_cat(r["SiteName"], r["LocationDescription"]))

\* Cell 19: the columns matching the regular expression 'Dusky*' anywhere in the label
\* are uppercased; then the rows with a null in every DuskyCollar column are dropped.
UpperDusky(df) ==
    LET dfDuskyColumnsList == SelectSeq(df.cols, LAMBDA c : Contains(c, "Dusk"))
        up == upper_consistent(Reorder(df, dfDuskyColumnsList))
    IN Frame(df.cols, df.dt,
             [i \in 1..Len(df.rows) |->
                 [c \in Range(df.cols) |->
                     IF c \in Range(dfDuskyColumnsList) THEN up.rows[i][c]
                     ELSE df.rows[i][c]]])

WithCollar(df) ==
    FilterRows(df, LAMBDA r : ~(\A c \in Range(df.cols) :
                                   Contains(c, "DuskyCollar") => IsNull(r[c])))

\* Cell 20.
NWRSelect ==
    <<"globalid_y", "SiteName", "LocationDescription", "EffortDate_Text", "EffortTime",
      "ObserverText", "Dusky*", "Total", "LatitudeDD", "LongitudeDD">>
NWRRename ==
    [globalid_y |-> "occurrenceID", SiteName |-> "location", EffortTime |-> "eventTime",
     EffortDate_Text |-> "eventDate", LatitudeDD |-> "decimalLatitude",
     LongitudeDD |-> "decimalLongitude", ObserverText |-> "recordedBy"]

\* Cell 21.
MBSelect ==
    <<"globalid_y", "State", "EffortDate_Text", "EffortTime", "Prec", "LatitudeDD",
      "LongitudeDD", "ObserverText", "SiteName", "LocationDescription", "Location",
      "Dusky*", "Total">>
MBRename ==
    [globalid_y |-> "globalid", EffortDate_Text |-> "Date", LatitudeDD |-> "Latdd",
     LongitudeDD |-> "Longdd", ObserverText |-> "Obs", DuskyCount |-> "Pres"]

CanProject(df, search, names) ==
    CanSelect(df, search) /\ CanRename(select_columns(df, search), names)
Project(df, search, names) == rename_columns(select_columns(df, search), names)

\* Cell 22: pivot_longer(index='globalid', names_to=('shortName', 'dimension'),
\* names_sep='Count', sort_by_appearance=True), then remove_columns(['dimension']).
pivot_longer(df) ==
    Frame(<<"globalid", "shortName", "value">>, Empty,
          Concat([i \in 1..Len(df.rows) |->
                     [n \in 1..(Len(df.cols) - 1) |->
                         [globalid |-> df.rows[i]["globalid"],
                          shortName |-> S(SplitOnce(df.cols[n + 1], "Count")[1]),
                          value |-> df.rows[i][df.cols[n + 1]]]]]))

\* (mutant) filter_on("value > 0") on counts that may be null: nothing is dropped for
\* being 0 when the comparison is lost.
filter_on_nothing(df) == df

\* filter_on("value != 0"): a null is not equal to 0, so the row stays.
filter_on_value(df) == FilterRows(df, LAMBDA r : r["value"] # I(0))

\* (mutant) the pivot with WuskyCount missing from its list of columns.
FlockPivotTempFewer(points) ==
    dropna(filter_on_value(pivot_longer(select_columns(points,
        <<"globalid">> \o SelectSeq(col_list, LAMBDA c : c # "WuskyCount")))))

FlockPivotTemp(points) ==
    dropna(filter_on_value(pivot_longer(select_columns(points, <<"globalid">> \o col_list))))

(***************************************************************************)
(* Cell 23: the three taxonomy dictionaries and Series.map.                *)
(***************************************************************************)
sciname_dict ==
    [Aleutian |-> "Branta hutchinsii leucopareia",
     Cackling |-> "Branta hutchinsii minima",
     Dusky |-> "Branta canadensis occidentalis",
     Less |-> "Branta canadensis parvipes",
     Tav |-> "Branta hutchinsii taverneri",
     TavLess |-> "Branta hutchinsii taverneri x Branta canadensis parvipes",
     Western |-> "Branta canadensis moffitti",
     Wusky |-> "Branta canadensis moffitti x Branta canadensis occidentalis",
     UnknownCackler |-> "Branta hutchinsii",
     UnknownCanada |-> "Branta canadensis",
     Ross |-> "Chen rossii",
     Snow |-> "Chen caerulescens",
     WhiteFronted |-> "Anser albifrons",
     UnknownGoose |-> "Branta",
     Trumpeter |-> "Cygnus buccinator",
     UnknownSwan |-> "Cygnus columbianus",
     Tundra |-> "Cygnus"]

FWSTaxonCode_dict ==
    [Aleutian |-> "604316", Cackling |-> "604318", Dusky |-> "77707", Less |-> "76633",
     Tav |-> "604320", TavLess |-> "", Western |-> "76632", Wusky |-> "",
     UnknownCackler |-> "604603", UnknownCanada |-> "76625", Ross |-> "77746",
     Snow |-> "77742", WhiteFronted |-> "77723", UnknownGoose |-> "76624",
     Trumpeter |-> "76618", UnknownSwan |-> "76612", Tundra |-> "76609"]

ITIS_dict ==
    [Aleutian |-> "714726", Cackling |-> "714727", Dusky |-> "175006", Less |-> "175004",
     Tav |-> "714728", TavLess |-> "", Western |-> "175003", Wusky |-> "",
     UnknownCackler |-> "714068", UnknownCanada |-> "174999", Ross |-> "175041",
     Snow |-> "175038", WhiteFronted |-> "175020", UnknownGoose |-> "174998",
     Trumpeter |-> "174992", UnknownSwan |-> "174987", Tundra |-> "174984"]

\* Series.map(dict) of one value: the dictionary's value, or null for a key it lacks.
map_dict(v, d) ==
    IF "str" \in DOMAIN v /\ v.str \in DOMAIN d THEN S(d[v.str]) ELSE Null

\* (mutant) the FWS taxon code looked up in the ITIS dictionary.
EnrichSwapped(df) ==
    SetColumn(SetColumn(SetColumn(df,
        "scientificName", LAMBDA r : map_dict(r["shortName"], sciname_dict)),
        "fwsTaxonCode", LAMBDA r : map_dict(r["shortName"], ITIS_dict)),
        "ITISTaxonCode", LAMBDA r : map_dict(r["shortName"], ITIS_dict))

Enrich(df) ==
    SetColumn(SetColumn(SetColumn(df,
        "scientificName", LAMBDA r : map_dict(r["shortName"], sciname_dict)),
        "fwsTaxonCode", LAMBDA r : map_dict(r["shortName"], FWSTaxonCode_dict)),
        "ITISTaxonCode", LAMBDA r : map_dict(r["shortName"], ITIS_dict))

(***************************************************************************)
(* Cells 24 to 27: the long and the wide flock table.                      *)
(***************************************************************************)
CleanSelect ==
    <<"globalid_x", "globalid_y", "SiteName", "ObserverText", "EffortDate_Text",
      "EffortTime", "LocationDescription", "LocationOther", "EffortNotes", "LatitudeDD",
      "LongitudeDD">>

FlockLongSelect ==
    <<"globalid_x", "globalid_y", "SiteName", "ObserverText", "EffortDate_Text",
      "EffortTime", "LocationDescription", "LocationOther", "shortName", "scientificName",
      "fwsTaxonCode", "ITISTaxonCode", "value", "LatitudeDD", "LongitudeDD", "EffortNotes">>
FlockLongRename ==
    [globalid_x |-> "eventID", globalid_y |-> "occurrenceID", SiteName |-> "location",
     EffortTime |-> "eventTime", EffortDate_Text |-> "eventDate",
     EffortNotes |-> "eventRemarks", LatitudeDD |-> "decimalLatitude",
     LongitudeDD |-> "decimalLongitude", ObserverText |-> "recordedBy",
     value |-> "individualCount"]

FlockWideSelect ==
    <<"globalid_x", "globalid_y", "SiteName", "ObserverText", "EffortDate_Text",
      "EffortTime", "LocationDescription", "LocationOther">>
    \o col_list
    \o <<"Total", "LatitudeDD", "LongitudeDD", "EffortNotes">>
FlockWideRename ==
    [globalid_x |-> "eventID", globalid_y |-> "occurrenceID", SiteName |-> "location",
     EffortTime |-> "eventTime", EffortDate_Text |-> "eventDate",
     EffortNotes |-> "eventRemarks", LatitudeDD |-> "decimalLatitude",
     LongitudeDD |-> "decimalLongitude", ObserverText |-> "recordedBy"]

(***************************************************************************)
(* Cells 28 and 29: the files.                                             *)
(***************************************************************************)
File(name, sheets) == [name |-> name, sheets |-> sheets]

BackupName == "USFWS_Goose_Mark-Resight_BKUP_" \o timestamp \o ".xlsx"
NeckbandCsvName == "USFWS_Goose_Mark-Resight_Neckband_" \o timestamp \o ".csv"
\* (mutant) the workbook's name without the site: every site writes the same file.
SiteFileNameNoSite(c) == "Goose_Data_" \o timestamp \o ".xlsx"

\* c + '_Goose_Data_' + timestamp + '.xlsx' raises TypeError when c is no string.
CanNameSite(c) == "str" \in DOMAIN c
SiteFileName(c) == c.str \o "_Goose_Data_" \o timestamp \o ".xlsx"

\* (mutant) the sheet written without the filter on the location.
AtEverySite(df, c) == df

AtSite(df, c) == FilterRows(df, LAMBDA r : r["location"] = c)

SiteFile(c, long, wide, nwr) ==
    File(SiteFileName(c),
         <<<<"Flock Long", AtSite(long, c)>>, <<"Flock Wide", AtSite(wide, c)>>,
           <<"Dusky Neckband", AtSite(nwr, c)>>>>)

(***************************************************************************)
(* The run: one action per cell.  A cell that raises ends the run          *)
(* ("failed") and leaves on disk what was written before it.  Writing a    *)
(* file may fail for a reason outside the program.                         *)
(***************************************************************************)
Init ==
    /\ pc = "load"
    /\ \E input \in Inputs : MetadataLyr = input[1] /\ ObservationPointLyr = input[2]
    /\ sedfMetadata = NoFrame
    /\ sedfObservationPoint = NoFrame
    /\ dfOtherSpeciesBands = NoFrame
    /\ sedfMetadataYYYY = NoFrame
    /\ sedfMetadataYYYY_ObservationPoint = NoFrame
    /\ dfDuskyNeckband = NoFrame
    /\ dfDuskyNeckbandNWR = NoFrame
    /\ dfDuskyNeckbandMB = NoFrame
    /\ dfFlockPivotTemp = NoFrame
    /\ dfFlockPivot = NoFrame
    /\ dfCleanMetadata = NoFrame
    /\ dfFlockLong = NoFrame
    /\ dfFlockWide = NoFrame
    /\ todo = <<>>
    /\ disk = <<>>

\* Cell 9: the three tables are read from the feature service.
FromLayer ==
    /\ pc = "load"
    /\ pc' = "filter"
    /\ sedfMetadata' = Frame(MetadataCols, MetadataDt, MetadataLyr)
    /\ sedfObservationPoint' = Frame(ObservationPointCols, ObservationPointDt, ObservationPointLyr)
    /\ dfOtherSpeciesBands' = OtherSpeciesBandsTable
    /\ UNCHANGED <<MetadataLyr, ObservationPointLyr, sedfMetadataYYYY,
                   sedfMetadataYYYY_ObservationPoint, dfDuskyNeckband, dfDuskyNeckbandNWR,
                   dfDuskyNeckbandMB, dfFlockPivotTemp, dfFlockPivot, dfCleanMetadata,
                   dfFlockLong, dfFlockWide, todo, disk>>

\* Cell 10: sedfMetadataYYYY is a new table, the rows of sedfMetadata in the date range.
FilterDate ==
    /\ pc = "filter"
    /\ pc' = "tz"
    /\ sedfMetadataYYYY' = filter_date(sedfMetadata, "EffortDate", start_date, end_date)
    /\ UNCHANGED <<MetadataLyr, ObservationPointLyr, sedfMetadata, sedfObservationPoint,
                   dfOtherSpeciesBands, sedfMetadataYYYY_ObservationPoint, dfDuskyNeckband,
                   dfDuskyNeckbandNWR, dfDuskyNeckbandMB, dfFlockPivotTemp, dfFlockPivot,
                   dfCleanMetadata, dfFlockLong, dfFlockWide, todo, disk>>

\* Cell 11: every datetime64[ns] column of the three tables gets a _Pacific twin, in place.
ChangeTimezone ==
    /\ pc = "tz"
    /\ pc' = "backup"
    /\ sedfMetadata' = ConvertAll(sedfMetadata, sedfMetadata.cols)
    /\ sedfObservationPoint' = ConvertAll(sedfObservationPoint, sedfObservationPoint.cols)
    /\ dfOtherSpeciesBands' = ConvertAll(dfOtherSpeciesBands, dfOtherSpeciesBands.cols)
    /\ UNCHANGED <<MetadataLyr, ObservationPointLyr, sedfMetadataYYYY,
                   sedfMetadataYYYY_ObservationPoint, dfDuskyNeckband, dfDuskyNeckbandNWR,
                   dfDuskyNeckbandMB, dfFlockPivotTemp, dfFlockPivot, dfCleanMetadata,
                   dfFlockLong, dfFlockWide, todo, disk>>

\* Cell 12: the zone-aware columns of the three tables become text, in place, and the
\* tables are written to the backup workbook.
Backup ==
    /\ pc = "backup"
    /\ sedfMetadata' = archive_dt_field(sedfMetadata)
    /\ sedfObservationPoint' = archive_dt_field(sedfObservationPoint)
    /\ dfOtherSpeciesBands' = archive_dt_field(dfOtherSpeciesBands)
    /\ \E written \in BOOLEAN :
          /\ pc' = IF written THEN "observer" ELSE "failed"
          /\ disk' = IF written
                     THEN Append(disk, File(BackupName,
                                            <<<<"Metadata", sedfMetadata'>>,
                                              <<"ObservationPoint", sedfObservationPoint'>>,
                                              <<"OtherSpeciesBands", dfOtherSpeciesBands'>>>>))
                     ELSE disk
    /\ UNCHANGED <<MetadataLyr, ObservationPointLyr, sedfMetadataYYYY,
                   sedfMetadataYYYY_ObservationPoint, dfDuskyNeckband, dfDuskyNeckbandNWR,
                   dfDuskyNeckbandMB, dfFlockPivotTemp, dfFlockPivot, dfCleanMetadata,
                   dfFlockLong, dfFlockWide, todo>>

\* Cell 13.
ObserverText ==
    /\ pc = "observer"
    /\ pc' = "state"
    /\ sedfMetadataYYYY' = PopulateObserverText(sedfMetadataYYYY)
    /\ UNCHANGED <<MetadataLyr, ObservationPointLyr, sedfMetadata, sedfObservationPoint,
                   dfOtherSpeciesBands, sedfMetadataYYYY_ObservationPoint, dfDuskyNeckband,
                   dfDuskyNeckbandNWR, dfDuskyNeckbandMB, dfFlockPivotTemp, dfFlockPivot,
                   dfCleanMetadata, dfFlockLong, dfFlockWide, todo, disk>>

\* Cell 14.
State ==
    /\ pc = "state"
    /\ pc' = IF CanAssignScalar(sedfMetadataYYYY, "State") THEN "join" ELSE "failed"
    /\ sedfMetadataYYYY' = IF CanAssignScalar(sedfMetadataYYYY, "State")
                           THEN PopulateState(sedfMetadataYYYY)
                           ELSE sedfMetadataYYYY
    /\ UNCHANGED <<MetadataLyr, ObservationPointLyr, sedfMetadata, sedfObservationPoint,
                   dfOtherSpeciesBands, sedfMetadataYYYY_ObservationPoint, dfDuskyNeckband,
                   dfDuskyNeckbandNWR, dfDuskyNeckbandMB, dfFlockPivotTemp, dfFlockPivot,
                   dfCleanMetadata, dfFlockLong, dfFlockWide, todo, disk>>

\* Cell 15.
Join ==
    /\ pc = "join"
    /\ pc' = "coords"
    /\ sedfMetadataYYYY_ObservationPoint' = merge(sedfMetadataYYYY, sedfObservationPoint, "globalid", "parentglobalid")
    /\ UNCHANGED <<MetadataLyr, ObservationPointLyr, sedfMetadata, sedfObservationPoint,
                   dfOtherSpeciesBands, sedfMetadataYYYY, dfDuskyNeckband,
                   dfDuskyNeckbandNWR, dfDuskyNeckbandMB, dfFlockPivotTemp, dfFlockPivot,
                   dfCleanMetadata, dfFlockLong, dfFlockWide, todo, disk>>

\* Cell 16.
LatLong ==
    /\ pc = "coords"
    /\ pc' = "total"
    /\ sedfMetadataYYYY_ObservationPoint' = PopulateLatLong(sedfMetadataYYYY_ObservationPoint)
    /\ UNCHANGED <<MetadataLyr, ObservationPointLyr, sedfMetadata, sedfObservationPoint,
                   dfOtherSpeciesBands, sedfMetadataYYYY, dfDuskyNeckband,
                   dfDuskyNeckbandNWR, dfDuskyNeckbandMB, dfFlockPivotTemp, dfFlockPivot,
                   dfCleanMetadata, dfFlockLong, dfFlockWide, todo, disk>>

\* Cell 17.
Total ==
    /\ pc = "total"
    /\ pc' = "neckband"
    /\ sedfMetadataYYYY_ObservationPoint' = PopulateTotal(sedfMetadataYYYY_ObservationPoint)
    /\ UNCHANGED <<MetadataLyr, ObservationPointLyr, sedfMetadata, sedfObservationPoint,
                   dfOtherSpeciesBands, sedfMetadataYYYY, dfDuskyNeckband,
                   dfDuskyNeckbandNWR, dfDuskyNeckbandMB, dfFlockPivotTemp, dfFlockPivot,
                   dfCleanMetadata, dfFlockLong, dfFlockWide, todo, disk>>

\* Cell 18.
Neckband ==
    /\ pc = "neckband"
    /\ pc' = IF CanBuildNeckband(sedfMetadataYYYY_ObservationPoint) THEN "upper" ELSE "failed"
    /\ dfDuskyNeckband' = IF CanBuildNeckband(sedfMetadataYYYY_ObservationPoint) THEN BuildNeckband(sedfMetadataYYYY_ObservationPoint) ELSE dfDuskyNeckband
    /\ UNCHANGED <<MetadataLyr, ObservationPointLyr, sedfMetadata, sedfObservationPoint,
                   dfOtherSpeciesBands, sedfMetadataYYYY,
                   sedfMetadataYYYY_ObservationPoint, dfDuskyNeckbandNWR,
                   dfDuskyNeckbandMB, dfFlockPivotTemp, dfFlockPivot, dfCleanMetadata,
                   dfFlockLong, dfFlockWide, todo, disk>>

\* Cell 19.
Upper ==
    /\ pc = "upper"
    /\ pc' = "nwr"
    /\ dfDuskyNeckband' = WithCollar(UpperDusky(dfDuskyNeckband))
    /\ UNCHANGED <<MetadataLyr, ObservationPointLyr, sedfMetadata, sedfObservationPoint,
                   dfOtherSpeciesBands, sedfMetadataYYYY,
                   sedfMetadataYYYY_ObservationPoint, dfDuskyNeckbandNWR,
                   dfDuskyNeckbandMB, dfFlockPivotTemp, dfFlockPivot, dfCleanMetadata,
                   dfFlockLong, dfFlockWide, todo, disk>>

\* Cell 20.
NeckbandNWR ==
    /\ pc = "nwr"
    /\ pc' = IF CanProject(dfDuskyNeckband, NWRSelect, NWRRename) THEN "mb" ELSE "failed"
    /\ dfDuskyNeckbandNWR' = IF CanProject(dfDuskyNeckband, NWRSelect, NWRRename) THEN Project(dfDuskyNeckband, NWRSelect, NWRRename) ELSE dfDuskyNeckbandNWR
    /\ UNCHANGED <<MetadataLyr, ObservationPointLyr, sedfMetadata, sedfObservationPoint,
                   dfOtherSpeciesBands, sedfMetadataYYYY,
                   sedfMetadataYYYY_ObservationPoint, dfDuskyNeckband, dfDuskyNeckbandMB,
                   dfFlockPivotTemp, dfFlockPivot, dfCleanMetadata, dfFlockLong,
                   dfFlockWide, todo, disk>>

\* Cell 21.
NeckbandMB ==
    /\ pc = "mb"
    /\ pc' = IF CanProject(dfDuskyNeckband, MBSelect, MBRename) THEN "pivot" ELSE "failed"
    /\ dfDuskyNeckbandMB' = IF CanProject(dfDuskyNeckband, MBSelect, MBRename) THEN Project(dfDuskyNeckband, MBSelect, MBRename) ELSE dfDuskyNeckbandMB
    /\ UNCHANGED <<MetadataLyr, ObservationPointLyr, sedfMetadata, sedfObservationPoint,
                   dfOtherSpeciesBands, sedfMetadataYYYY,
                   sedfMetadataYYYY_ObservationPoint, dfDuskyNeckband, dfDuskyNeckbandNWR,
                   dfFlockPivotTemp, dfFlockPivot, dfCleanMetadata, dfFlockLong,
                   dfFlockWide, todo, disk>>

\* Cell 22.
FlockPivot ==
    /\ pc = "pivot"
    /\ pc' = "enrich"
    /\ dfFlockPivotTemp' = FlockPivotTemp(sedfObservationPoint)
    /\ UNCHANGED <<MetadataLyr, ObservationPointLyr, sedfMetadata, sedfObservationPoint,
                   dfOtherSpeciesBands, sedfMetadataYYYY,
                   sedfMetadataYYYY_ObservationPoint, dfDuskyNeckband, dfDuskyNeckbandNWR,
                   dfDuskyNeckbandMB, dfFlockPivot, dfCleanMetadata, dfFlockLong,
                   dfFlockWide, todo, disk>>

\* Cell 23.
Taxonomy ==
    /\ pc = "enrich"
    /\ pc' = "clean"
    /\ dfFlockPivot' = Enrich(dfFlockPivotTemp)
    /\ UNCHANGED <<MetadataLyr, ObservationPointLyr, sedfMetadata, sedfObservationPoint,
                   dfOtherSpeciesBands, sedfMetadataYYYY,
                   sedfMetadataYYYY_ObservationPoint, dfDuskyNeckband, dfDuskyNeckbandNWR,
                   dfDuskyNeckbandMB, dfFlockPivotTemp, dfCleanMetadata, dfFlockLong,
                   dfFlockWide, todo, disk>>

\* Cell 24.
CleanMetadata ==
    /\ pc = "clean"
    /\ pc' = "merge"
    /\ dfCleanMetadata' = select_columns(sedfMetadataYYYY_ObservationPoint, CleanSelect)
    /\ UNCHANGED <<MetadataLyr, ObservationPointLyr, sedfMetadata, sedfObservationPoint,
                   dfOtherSpeciesBands, sedfMetadataYYYY,
                   sedfMetadataYYYY_ObservationPoint, dfDuskyNeckband, dfDuskyNeckbandNWR,
                   dfDuskyNeckbandMB, dfFlockPivotTemp, dfFlockPivot, dfFlockLong,
                   dfFlockWide, todo, disk>>

\* Cell 25.
MergeFlock ==
    /\ pc = "merge"
    /\ pc' = "long"
    /\ dfFlockLong' = merge(dfCleanMetadata, dfFlockPivot, "globalid_y", "globalid")
    /\ UNCHANGED <<MetadataLyr, ObservationPointLyr, sedfMetadata, sedfObservationPoint,
                   dfOtherSpeciesBands, sedfMetadataYYYY,
                   sedfMetadataYYYY_ObservationPoint, dfDuskyNeckband, dfDuskyNeckbandNWR,
                   dfDuskyNeckbandMB, dfFlockPivotTemp, dfFlockPivot, dfCleanMetadata,
                   dfFlockWide, todo, disk>>

\* Cell 26.
FlockLong ==
    /\ pc = "long"
    /\ pc' = "wide"
    /\ dfFlockLong' = Project(dfFlockLong, FlockLongSelect, FlockLongRename)
    /\ UNCHANGED <<MetadataLyr, ObservationPointLyr, sedfMetadata, sedfObservationPoint,
                   dfOtherSpeciesBands, sedfMetadataYYYY,
                   sedfMetadataYYYY_ObservationPoint, dfDuskyNeckband, dfDuskyNeckbandNWR,
                   dfDuskyNeckbandMB, dfFlockPivotTemp, dfFlockPivot, dfCleanMetadata,
                   dfFlockWide, todo, disk>>

\* Cell 27.
FlockWide ==
    /\ pc = "wide"
    /\ pc' = "csv"
    /\ dfFlockWide' = Project(sedfMetadataYYYY_ObservationPoint, FlockWideSelect, FlockWideRename)
    /\ UNCHANGED <<MetadataLyr, ObservationPointLyr, sedfMetadata, sedfObservationPoint,
                   dfOtherSpeciesBands, sedfMetadataYYYY,
                   sedfMetadataYYYY_ObservationPoint, dfDuskyNeckband, dfDuskyNeckbandNWR,
                   dfDuskyNeckbandMB, dfFlockPivotTemp, dfFlockPivot, dfCleanMetadata,
                   dfFlockLong, todo, disk>>

\* Cell 28: the Migratory Birds csv; then cell 29 starts its loop over the site names.
ExportCsv ==
    /\ pc = "csv"
    /\ \E written \in BOOLEAN :
          /\ pc' = IF written THEN "excel" ELSE "failed"
          /\ disk' = IF written
                     THEN Append(disk, File(NeckbandCsvName, <<<<"csv", dfDuskyNeckbandMB>>>>))
                     ELSE disk
          /\ todo' = IF written
                     THEN Unique(Column(sedfMetadataYYYY_ObservationPoint, "SiteName"))
                     ELSE todo
    /\ UNCHANGED <<MetadataLyr, ObservationPointLyr, sedfMetadata, sedfObservationPoint,
                   dfOtherSpeciesBands, sedfMetadataYYYY,
                   sedfMetadataYYYY_ObservationPoint, dfDuskyNeckband, dfDuskyNeckbandNWR,
                   dfDuskyNeckbandMB, dfFlockPivotTemp, dfFlockPivot, dfCleanMetadata,
                   dfFlockLong, dfFlockWide>>

\* Cell 29, one turn of the loop: the workbook of site c = Head(todo).
ExportSite ==
    /\ pc = "excel"
    /\ todo # <<>>
    /\ \E written \in BOOLEAN :
          LET c == Head(todo)
              ok == CanNameSite(c) /\ written
          IN /\ pc' = IF ok THEN "excel" ELSE "failed"
             /\ disk' = IF ok
                        THEN Append(disk, SiteFile(c, dfFlockLong, dfFlockWide,
                                                   dfDuskyNeckbandNWR))
                        ELSE disk
             /\ todo' = IF ok THEN Tail(todo) ELSE todo
    /\ UNCHANGED <<MetadataLyr, ObservationPointLyr, sedfMetadata, sedfObservationPoint,
                   dfOtherSpeciesBands, sedfMetadataYYYY,
                   sedfMetadataYYYY_ObservationPoint, dfDuskyNeckband, dfDuskyNeckbandNWR,
                   dfDuskyNeckbandMB, dfFlockPivotTemp, dfFlockPivot, dfCleanMetadata,
                   dfFlockLong, dfFlockWide>>

\* The loop of cell 29 ends: the run is complete.
Finish ==
    /\ pc = "excel"
    /\ todo = <<>>
    /\ pc' = "done"
    /\ UNCHANGED <<MetadataLyr, ObservationPointLyr, sedfMetadata, sedfObservationPoint,
                   dfOtherSpeciesBands, sedfMetadataYYYY,
                   sedfMetadataYYYY_ObservationPoint, dfDuskyNeckband, dfDuskyNeckbandNWR,
                   dfDuskyNeckbandMB, dfFlockPivotTemp, dfFlockPivot, dfCleanMetadata,
                   dfFlockLong, dfFlockWide, todo, disk>>

Next ==
    \/ FromLayer
    \/ FilterDate
    \/ ChangeTimezone
    \/ Backup
    \/ ObserverText
    \/ State
    \/ Join
    \/ LatLong
    \/ Total
    \/ Neckband
    \/ Upper
    \/ NeckbandNWR
    \/ NeckbandMB
    \/ FlockPivot
    \/ Taxonomy
    \/ CleanMetadata
    \/ MergeFlock
    \/ FlockLong
    \/ FlockWide
    \/ ExportCsv
    \/ ExportSite
    \/ Finish

Spec == Init /\ [][Next]_vars

(***************************************************************************)
(* Properties.                                                             *)
(***************************************************************************)
Joined == sedfMetadataYYYY_ObservationPoint
Rows(df) == Range(df.rows)
NullAsZero(v) == IF IsNull(v) THEN 0 ELSE v.int

RECURSIVE SumFirst(_, _)
\* The sum of the first n counts of col_list in row r, a null counting 0.
SumFirst(r, n) == IF n = 0 THEN 0 ELSE SumFirst(r, n - 1) + NullAsZero(r[col_list[n]])

\* C1: in every row of the joined table, Total is the sum of the 17 count fields with a
\* null counted as 0; a row whose counts are all null has Total 0.
C1_TotalIsSum ==
    HasColumn(Joined, "Total") =>
        \A r \in Rows(Joined) :
            /\ r["Total"] = I(SumFirst(r, 17))
            /\ (\A c \in Range(col_list) : IsNull(r[c])) => r["Total"] = I(0)

C1_Witness ==
    /\ HasColumn(Joined, "Total")
    /\ \E r \in Rows(Joined) : \A c \in Range(col_list) : IsNull(r[c])
    /\ \E r \in Rows(Joined) :
          /\ IsNull(r["CacklingCount"])
          /\ r["DuskyCount"] = I(2)
          /\ r["WuskyCount"] = I(1)
          /\ r["Total"] = I(3)

InPrepopulatedSet(r) ==
    r["SiteName"] \in {S("Ridgefield NWR"), S("Tualatin River NWR"), S("Wapato Lake NWR")}

\* C2 as claimed: the resolved pair is the prepopulated pair when the site is in the set
\* and both prepopulated values are present, and the measured pair in every other case.
C2_PairwiseAsClaimed ==
    HasColumn(Joined, "LongitudeDD") =>
        \A r \in Rows(Joined) :
            <<r["LatitudeDD"], r["LongitudeDD"]>> =
                IF /\ InPrepopulatedSet(r)
                   /\ NotNull(r["Latitude_Prepopulated"])
                   /\ NotNull(r["Longitude_Prepopulated"])
                THEN <<r["Latitude_Prepopulated"], r["Longitude_Prepopulated"]>>
                ELSE <<r["Latitude"], r["Longitude"]>>

\* C2 amended: each coordinate is resolved on its own: LatitudeDD is the prepopulated
\* latitude when the site is in the set and that latitude is present, else the measured
\* latitude; LongitudeDD likewise from the two longitudes.
C2_PerCoordinate ==
    HasColumn(Joined, "LongitudeDD") =>
        \A r \in Rows(Joined) :
            /\ r["LatitudeDD"] =
                  IF InPrepopulatedSet(r) /\ NotNull(r["Latitude_Prepopulated"])
                  THEN r["Latitude_Prepopulated"] ELSE r["Latitude"]
            /\ r["LongitudeDD"] =
                  IF InPrepopulatedSet(r) /\ NotNull(r["Longitude_Prepopulated"])
                  THEN r["Longitude_Prepopulated"] ELSE r["Longitude"]

\* A row at a prepopulated site with only the latitude prepopulated: the resolved pair
\* mixes the prepopulated latitude with the measured longitude.
C2_Witness ==
    /\ HasColumn(Joined, "LongitudeDD")
    /\ \E r \in Rows(Joined) :
          /\ InPrepopulatedSet(r)
          /\ NotNull(r["Latitude_Prepopulated"])
          /\ IsNull(r["Longitude_Prepopulated"])
          /\ NotNull(r["Latitude"])
          /\ r["LatitudeDD"] = r["Latitude_Prepopulated"]
          /\ r["LatitudeDD"] # r["Latitude"]
          /\ r["LongitudeDD"] = r["Longitude"]

ShortNames == {"Dusky", "Wusky", "Western", "TavLess", "Tav", "Less", "Aleutian",
               "Cackling", "UnknownCanada", "UnknownCackler", "WhiteFronted", "Snow",
               "Ross", "UnknownGoose", "Trumpeter", "Tundra", "UnknownSwan"}

Pivoted == dfFlockPivotTemp.cols # <<>>

\* C3: the pivot holds the row (globalid, shortName, value) exactly when the point with
\* that globalid has the non-null, non-zero value in column shortName + 'Count', once;
\* so no row has a value of 0 or null.
C3_PivotRows ==
    Pivoted =>
        /\ Rows(dfFlockPivotTemp) =
              {[globalid |-> p["globalid"], shortName |-> S(n), value |-> p[n \o "Count"]] :
                  <<p, n>> \in {<<q, m>> \in Rows(sedfObservationPoint) \X ShortNames :
                                    NotNull(q[m \o "Count"]) /\ q[m \o "Count"] # I(0)}}
        /\ \A i, j \in 1..Len(dfFlockPivotTemp.rows) :
              dfFlockPivotTemp.rows[i] = dfFlockPivotTemp.rows[j] => i = j
        /\ \A r \in Rows(dfFlockPivotTemp) : r["value"] # I(0) /\ NotNull(r["value"])

\* A point with DuskyCount present and not 0, WuskyCount 0, CacklingCount null and every
\* other count 0 gives exactly one row, of shortName 'Dusky'.
C3_Witness ==
    /\ Pivoted
    /\ \E p \in Rows(sedfObservationPoint) :
          /\ p["DuskyCount"] = I(2) /\ p["WuskyCount"] = I(0) /\ IsNull(p["CacklingCount"])
          /\ \A c \in Range(col_list) \ {"DuskyCount", "CacklingCount"} : p[c] = I(0)
          /\ {r \in Rows(dfFlockPivotTemp) : r["globalid"] = p["globalid"]} =
                {[globalid |-> p["globalid"], shortName |-> S("Dusky"), value |-> I(2)]}

JoinedYet == Joined.cols # <<>>
Count(seq, P(_)) == Len(SelectSeq(seq, P))

\* The globalid of the points whose parent is a date-filtered event.
MatchedPoints ==
    {p["globalid"] : p \in {q \in Rows(sedfObservationPoint) :
        \E e \in Rows(sedfMetadataYYYY) : q["parentglobalid"] = e["globalid"]}}
\* The globalid of the date-filtered events that have a point.
MatchedEvents ==
    {e["globalid"] : e \in {f \in Rows(sedfMetadataYYYY) :
        \E q \in Rows(sedfObservationPoint) : q["parentglobalid"] = f["globalid"]}}

ExportFiles == SelectSeq(disk, LAMBDA f : f.name # BackupName)
Sheets(f) == {f.sheets[k][2] : k \in 1..Len(f.sheets)}

\* The point, and the event, identifiers a table built from the joined table holds.
PointIdsIn(df) ==
    {r[c] : <<r, c>> \in Rows(df) \X ({"occurrenceID", "globalid_y", "globalid"}
                                        \cap Range(df.cols))}
EventIdsIn(df) ==
    {r[c] : <<r, c>> \in Rows(df) \X ({"eventID", "globalid_x"} \cap Range(df.cols))}

Derived ==
    {dfDuskyNeckband, dfDuskyNeckbandNWR, dfDuskyNeckbandMB, dfCleanMetadata, dfFlockLong,
     dfFlockWide} \cup UNION {Sheets(ExportFiles[k]) : k \in 1..Len(ExportFiles)}

\* C4: the joined table has one row for exactly the pairs of a date-filtered event and a
\* point whose parentglobalid is the event's globalid; the keys of a row are equal; and
\* no table or export file built from it holds another event or point.
C4_InnerJoin ==
    JoinedYet =>
        /\ \A r \in Rows(Joined) : r["globalid_x"] = r["parentglobalid"]
        /\ \A e \in Rows(sedfMetadataYYYY), p \in Rows(sedfObservationPoint) :
              Count(Joined.rows, LAMBDA r : /\ r["globalid_x"] = e["globalid"]
                                            /\ r["globalid_y"] = p["globalid"])
                 = IF p["parentglobalid"] = e["globalid"] THEN 1 ELSE 0
        /\ PointIdsIn(Joined) = MatchedPoints
        /\ EventIdsIn(Joined) = MatchedEvents
        /\ \A df \in Derived : /\ PointIdsIn(df) \subseteq MatchedPoints
                               /\ EventIdsIn(df) \subseteq MatchedEvents

\* A complete run with a joined row, a date-filtered event without a point, and a point
\* whose parent is no date-filtered event.
C4_Witness ==
    /\ pc = "done"
    /\ Joined.rows # <<>>
    /\ dfFlockLong.rows # <<>>
    /\ \E e \in Rows(sedfMetadataYYYY) : e["globalid"] \notin MatchedEvents
    /\ \E p \in Rows(sedfObservationPoint) : p["globalid"] \notin MatchedPoints

Filtered == sedfMetadataYYYY.cols # <<>>

\* C5 as claimed: every retained event has start <= EffortDate < end.
C5_EndExclusiveAsClaimed ==
    Filtered =>
        \A e \in Rows(sedfMetadataYYYY) :
            start_date <= e["EffortDate"].ts /\ e["EffortDate"].ts < end_date

\* C5 amended: the retained events are exactly those with start <= EffortDate <= end,
\* the two bounds being the instants 00:00 of the two dates: an event at the very
\* instant of the end bound is kept, and one later on that day is not.
C5_BothInclusive ==
    Filtered =>
        {e["globalid"] : e \in Rows(sedfMetadataYYYY)} =
            {e["globalid"] : e \in {f \in Range(MetadataLyr) :
                5832 <= f["EffortDate"].ts /\ f["EffortDate"].ts <= 12384}}

C5_Witness ==
    /\ Filtered
    /\ \E e \in Rows(sedfMetadataYYYY) : e["EffortDate"].ts = 12384
    /\ \E e \in Range(MetadataLyr) :
          /\ e["EffortDate"].ts = 12384 + 12
          /\ \A f \in Rows(sedfMetadataYYYY) : f["globalid"] # e["globalid"]

\* The tables of cell 11 with the layer each was read from.
Converted == {<<sedfMetadata, MetadataLyr, {"EffortDate", "CreationDate"}>>,
              <<sedfObservationPoint, ObservationPointLyr, {"CreationDate"}>>}

\* C6 as claimed: after change_timezone_of_field the table has the new field, and the
\* source field holds what it held before the call and is still naive.
C6_SourceUntouchedAsClaimed ==
    pc = "backup" =>
        \A t \in Converted : \A c \in t[3] :
            /\ HasColumn(t[1], c \o "_Pacific")
            /\ t[1].dt[c] = "naive"
            /\ \A i \in 1..Len(t[2]) : t[1].rows[i][c] = t[2][i][c]

\* C6 amended: after change_timezone_of_field the table has the new field source+suffix,
\* holding the source's instants in the new zone; the source field is still there and
\* holds the same wall-clock values, but it is no longer naive: it has been localized to
\* the source zone in place; no other field is changed.
C6_AdditiveButLocalized ==
    pc = "backup" =>
        \A t \in Converted :
            /\ Len(t[1].rows) = Len(t[2])
            /\ \A c \in t[3] :
                  /\ HasColumn(t[1], c) /\ HasColumn(t[1], c \o "_Pacific")
                  /\ t[1].dt[c] = "UTC" /\ t[1].dt[c \o "_Pacific"] = "US/Pacific"
                  /\ \A i \in 1..Len(t[2]) :
                        LET before == t[2][i][c] IN
                        /\ t[1].rows[i][c] =
                              IF IsNull(before) THEN Null ELSE [ts |-> before.ts, tz |-> "UTC"]
                        /\ t[1].rows[i][c \o "_Pacific"] =
                              IF IsNull(before) THEN Null
                              ELSE [ts |-> before.ts, tz |-> "US/Pacific"]
            /\ \A i \in 1..Len(t[2]) : \A c \in (DOMAIN t[2][i]) \ t[3] :
                  t[1].rows[i][c] = t[2][i][c]

C6_Witness ==
    /\ pc = "backup"
    /\ \E i \in 1..Len(ObservationPointLyr) :
          /\ ObservationPointLyr[i]["CreationDate"] = [ts |-> 6000]
          /\ sedfObservationPoint.rows[i]["CreationDate"] = [ts |-> 6000, tz |-> "UTC"]
          /\ sedfObservationPoint.rows[i]["CreationDate_Pacific"]
                = [ts |-> 6000, tz |-> "US/Pacific"]
    /\ \E i \in 1..Len(ObservationPointLyr) : IsNull(ObservationPointLyr[i]["CreationDate"])

\* The site names of the joined table in order of first appearance, and of them the
\* ones before the first that is no string.
JoinedSites == Unique(Column(Joined, "SiteName"))
RECURSIVE NameableSites(_)
NameableSites(sites) ==
    IF sites = <<>> \/ "str" \notin DOMAIN Head(sites) THEN <<>>
    ELSE <<Head(sites)>> \o NameableSites(Tail(sites))

WorkbookName(c) == c.str \o "_Goose_Data_2022-06-02_1200.xlsx"
PlannedFiles ==
    <<"USFWS_Goose_Mark-Resight_BKUP_2022-06-02_1200.xlsx",
      "USFWS_Goose_Mark-Resight_Neckband_2022-06-02_1200.csv">>
    \o Map(NameableSites(JoinedSites), WorkbookName)
FileNames == [k \in 1..Len(disk) |-> disk[k].name]
ExportNames == [k \in 1..Len(ExportFiles) |-> ExportFiles[k].name]

\* C7 as claimed: when the run has ended, the export files (the csv and the site
\* workbooks) are all on disk or none of them is.
C7_AllOrNothingAsClaimed ==
    pc \in {"done", "failed"} =>
        \/ ExportFiles = <<>>
        \/ ExportNames = SubSeq(PlannedFiles, 2, Len(PlannedFiles))
              /\ Len(PlannedFiles) = 2 + Len(JoinedSites)

\* C7 amended: the files are written one after the other: the backup, the csv, then
\* one workbook per site of the joined table in order of first appearance.  The files on
\* disk are always the first of that list; a run that fails keeps the ones written
\* before the failure, and only a run that ends without failure has them all.
C7_WrittenInOrder ==
    /\ Len(FileNames) <= Len(PlannedFiles)
    /\ FileNames = SubSeq(PlannedFiles, 1, Len(FileNames))
    /\ pc = "done" => /\ FileNames = PlannedFiles
                      /\ Len(PlannedFiles) = 2 + Len(JoinedSites)

\* A run that has failed with the csv and the first of two site workbooks on disk.
C7_Witness ==
    /\ pc = "failed"
    /\ Len(JoinedSites) = 2
    /\ Len(ExportFiles) = 2
    /\ ExportFiles[1].name = NeckbandCsvName

DuskyAll == <<"DuskyBandNote">> \o CollarCols \o <<"DuskyCount">>
\* The Dusky columns with a value in some row of the joined table.
DuskyKept == SelectSeq(DuskyAll, LAMBDA c : \E r \in Rows(Joined) : NotNull(r[c]))

NWRCols(dusky) ==
    <<"occurrenceID", "location", "LocationDescription", "eventDate", "eventTime",
      "recordedBy">> \o dusky \o <<"Total", "decimalLatitude", "decimalLongitude">>
MBCols(dusky) ==
    <<"globalid", "State", "Date", "EffortTime", "Prec", "Latdd", "Longdd", "Obs",
      "SiteName", "LocationDescription", "Location">>
    \o [i \in 1..Len(dusky) |-> IF dusky[i] = "DuskyCount" THEN "Pres" ELSE dusky[i]]
    \o <<"Total">>
FlockLongCols ==
    <<"eventID", "occurrenceID", "location", "recordedBy", "eventDate", "eventTime",
      "LocationDescription", "LocationOther", "shortName", "scientificName",
      "fwsTaxonCode", "ITISTaxonCode", "individualCount", "decimalLatitude",
      "decimalLongitude", "eventRemarks">>
FlockWideCols ==
    <<"eventID", "occurrenceID", "location", "recordedBy", "eventDate", "eventTime",
      "LocationDescription", "LocationOther">>
    \o col_list \o <<"Total", "decimalLatitude", "decimalLongitude", "eventRemarks">>

\* C8 as claimed: in a complete run the four exports have the same columns whatever the
\* data: every Dusky column of the layer is in the two neckband exports.
C8_FixedSchemasAsClaimed ==
    pc = "done" =>
        /\ dfDuskyNeckbandNWR.cols = NWRCols(DuskyAll)
        /\ dfDuskyNeckbandMB.cols = MBCols(DuskyAll)
        /\ dfFlockLong.cols = FlockLongCols
        /\ dfFlockWide.cols = FlockWideCols

\* C8 amended: in a complete run the long and the wide flock export have fixed columns;
\* the two neckband exports have their fixed columns around the Dusky columns, which
\* are DuskyCount and those of DuskyBandNote and the DuskyCollar slots that are not null
\* in every row of the joined table.
C8_SchemasUpToNullColumns ==
    pc = "done" =>
        /\ dfDuskyNeckbandNWR.cols = NWRCols(DuskyKept)
        /\ dfDuskyNeckbandMB.cols = MBCols(DuskyKept)
        /\ "DuskyCount" \in Range(DuskyKept)
        /\ dfFlockLong.cols = FlockLongCols
        /\ dfFlockWide.cols = FlockWideCols

\* A complete run whose neckband exports lack a DuskyCollar column.
C8_Witness ==
    /\ pc = "done"
    /\ dfDuskyNeckbandNWR.rows # <<>>
    /\ \E c \in Range(CollarCols) : /\ ~HasColumn(dfDuskyNeckbandNWR, c)
                                    /\ ~HasColumn(dfDuskyNeckbandMB, c)
    /\ \E c \in Range(CollarCols) : HasColumn(dfDuskyNeckbandNWR, c)

Workbooks == SelectSeq(ExportFiles, LAMBDA f : f.name # NeckbandCsvName)

\* C9 as claimed: in a complete run there is one workbook for each site name among the
\* date-filtered survey events.
C9_SitesOfEventsAsClaimed ==
    pc = "done" =>
        /\ Len(Workbooks) = Cardinality({e["SiteName"] : e \in Rows(sedfMetadataYYYY)})
        /\ \A e \in Rows(sedfMetadataYYYY) : \E k \in 1..Len(Workbooks) :
              Workbooks[k].name = WorkbookName(e["SiteName"])

OnlySite(df, c) == Frame(df.cols, df.dt, SelectSeq(df.rows, LAMBDA r : r["location"] = c))

\* C9 amended: in a complete run there is exactly one workbook for each site name among
\* the rows of the joined table (the date-filtered events that have a point); it has the
\* three sheets, each the rows of its table whose location is the site; and every row of
\* the three tables is in exactly one workbook.
C9_SitesOfJoinedRows ==
    pc = "done" =>
        /\ Len(Workbooks) = Len(JoinedSites)
        /\ \A k \in 1..Len(Workbooks) :
              /\ Workbooks[k].name = WorkbookName(JoinedSites[k])
              /\ Workbooks[k].sheets =
                    <<<<"Flock Long", OnlySite(dfFlockLong, JoinedSites[k])>>,
                      <<"Flock Wide", OnlySite(dfFlockWide, JoinedSites[k])>>,
                      <<"Dusky Neckband", OnlySite(dfDuskyNeckbandNWR, JoinedSites[k])>>>>
        /\ \A s \in 1..3 :
              LET table == <<dfFlockLong, dfFlockWide, dfDuskyNeckbandNWR>>[s]
              IN /\ \A r \in Rows(table) :
                       Cardinality({k \in 1..Len(Workbooks) :
                                       r \in Rows(Workbooks[k].sheets[s][2])}) = 1
                 /\ Len(table.rows) = Len(Concat([k \in 1..Len(Workbooks) |->
                                                     Workbooks[k].sheets[s][2].rows]))

\* A complete run with two workbooks, each with rows on its sheets.
C9_Witness ==
    /\ pc = "done"
    /\ Len(Workbooks) = 2
    /\ \A k \in 1..2 : \A s \in 1..3 : Workbooks[k].sheets[s][2].rows # <<>>

Enriched == HasColumn(dfFlockPivot, "ITISTaxonCode")
Lookup(d, name) == IF name \in DOMAIN d THEN [str |-> d[name]] ELSE Null
UnknownSpecies ==
    Frame(<<"globalid", "shortName", "value">>, Empty,
          <<[globalid |-> S("p1"), shortName |-> S("Mallard"), value |-> I(1)]>>)

\* C10: in every row of the enriched pivot and of the long flock table the three
\* taxonomy fields are the values of the three dictionaries at the row's shortName, the
\* empty string where the dictionary has it and null where the dictionary lacks the name;
\* enriching a second time gives the same table.
C10_Taxonomy ==
    /\ Enriched =>
          /\ \A r \in Rows(dfFlockPivot) :
                /\ r["scientificName"] = Lookup(sciname_dict, r["shortName"].str)
                /\ r["fwsTaxonCode"] = Lookup(FWSTaxonCode_dict, r["shortName"].str)
                /\ r["ITISTaxonCode"] = Lookup(ITIS_dict, r["shortName"].str)
                /\ r["shortName"] = S("Dusky") =>
                      r["scientificName"] = S("Branta canadensis occidentalis")
                /\ r["shortName"] = S("Wusky") =>
                      r["fwsTaxonCode"] = S("") /\ r["ITISTaxonCode"] = S("")
          /\ Enrich(dfFlockPivot) = dfFlockPivot
          /\ Enrich(Enrich(dfFlockPivotTemp)) = dfFlockPivot
          /\ \A c \in {"scientificName", "fwsTaxonCode", "ITISTaxonCode"} :
                IsNull(Enrich(UnknownSpecies).rows[1][c])
    /\ HasColumn(dfFlockLong, "ITISTaxonCode") =>
          \A r \in Rows(dfFlockLong) :
              /\ r["scientificName"] = Lookup(sciname_dict, r["shortName"].str)
              /\ r["fwsTaxonCode"] = Lookup(FWSTaxonCode_dict, r["shortName"].str)
              /\ r["ITISTaxonCode"] = Lookup(ITIS_dict, r["shortName"].str)

C10_Witness ==
    /\ Enriched
    /\ \E r \in Rows(dfFlockPivot) :
          /\ r["shortName"] = S("Wusky")
          /\ r["scientificName"]
                = S("Branta canadensis moffitti x Branta canadensis occidentalis")
          /\ r["fwsTaxonCode"] = S("")
    /\ \E r \in Rows(dfFlockPivot) :
          r["shortName"] = S("Dusky") /\ r["ITISTaxonCode"] = S("175006")

\* The survey event of the layer with the id of row e.
LayerEvent(e) == CHOOSE f \in Range(MetadataLyr) : f["globalid"] = e["globalid"]
Resolved(observer, other) == IF observer = [str |-> "Other"] THEN other ELSE observer

\* C11: once ObserverText is populated, in every date-filtered survey event it is
\* ObserverOther when Observer is "Other" and Observer otherwise, Observer and
\* ObserverOther being the values read from the layer; the joined rows and the
\* recordedBy of the flock tables carry the same value.
C11_ObserverResolution ==
    /\ HasColumn(sedfMetadataYYYY, "ObserverText") =>
          \A e \in Rows(sedfMetadataYYYY) :
              /\ e["Observer"] = LayerEvent(e)["Observer"]
              /\ e["ObserverOther"] = LayerEvent(e)["ObserverOther"]
              /\ e["ObserverText"] = Resolved(e["Observer"], e["ObserverOther"])
    /\ \A r \in Rows(Joined) :
          r["ObserverText"] = Resolved(r["Observer"], r["ObserverOther"])
    /\ \A df \in {dfFlockLong, dfFlockWide} :
          HasColumn(df, "recordedBy") =>
              \A r \in Rows(df) : \E f \in Range(MetadataLyr) :
                  /\ f["globalid"] = r["eventID"]
                  /\ r["recordedBy"] = Resolved(f["Observer"], f["ObserverOther"])

\* Both branches with both fields set: "Other" with a free text, and a selection other
\* than "Other" beside a free text that is not taken.
C11_Witness ==
    /\ pc = "state"
    /\ \E e \in Rows(sedfMetadataYYYY) :
          /\ e["Observer"] = S("Other") /\ e["ObserverOther"] = S("J. Smith")
          /\ e["ObserverText"] = S("J. Smith")
    /\ \E e \in Rows(sedfMetadataYYYY) :
          /\ e["Observer"] = S("K. So") /\ e["ObserverOther"] = S("J. Smith")
          /\ e["ObserverText"] = S("K. So")

StateAssigned == HasColumn(sedfMetadataYYYY, "State")
\* Cell 14 with its two assignments in the other order.
StateOregonFirst(df) ==
    LocAssign(LocAssign(df, LAMBDA r : r["SiteName"] \in OR_filter, "State",
                        LAMBDA r : [str |-> "OR"]),
              LAMBDA r : r["SiteName"] \in WA_filter, "State", LAMBDA r : [str |-> "WA"])
StateOf(site) ==
    IF site \in {[str |-> "Willapa NWR"], [str |-> "Ridgefield NWR"],
                 [str |-> "Julia Butler Hansen Refuge for the Columbian White-tailed Deer"]}
    THEN [str |-> "WA"]
    ELSE IF site \in {[str |-> "Lewis and Clark NWR"], [str |-> "Tualatin River NWR"],
                      [str |-> "Wapato Lake NWR"], [str |-> "Baskett Slough NWR"],
                      [str |-> "Ankeny NWR"], [str |-> "William L. Finley NWR"],
                      [str |-> "Nestucca Bay NWR"]}
    THEN [str |-> "OR"]
    ELSE Null

\* C12: once State is assigned, every date-filtered survey event has State "WA" exactly
\* when its SiteName is in the WA set, "OR" exactly when it is in the OR set, and null
\* when it is in neither; the two sets are disjoint and the two assignments in the
\* other order give the same table; and the assignment of a table that has events does
\* not fail, whatever their sites.
C12_StateAssignment ==
    /\ [](/\ WA_filter \cap OR_filter = {}
          /\ StateAssigned =>
                /\ \A e \in Rows(sedfMetadataYYYY) :
                      /\ e["State"] = [str |-> "WA"] <=> e["SiteName"] \in WA_filter
                      /\ e["State"] = [str |-> "OR"] <=> e["SiteName"] \in OR_filter
                      /\ e["State"] = StateOf(LayerEvent(e)["SiteName"])
                /\ StateOregonFirst([sedfMetadataYYYY EXCEPT
                       !.cols = SelectSeq(sedfMetadataYYYY.cols, LAMBDA c : c # "State")])
                      = sedfMetadataYYYY
          /\ \A r \in Rows(Joined) : r["State"] = StateOf(r["SiteName"]))
    /\ [][pc = "state" /\ sedfMetadataYYYY.rows # <<>> => pc' = "join" /\ StateAssigned']_vars

\* An Oregon site and a site of neither set in one table, the run going on.
C12_Witness ==
    /\ pc = "join"
    /\ \E e \in Rows(sedfMetadataYYYY) :
          e["SiteName"] = S("Ankeny NWR") /\ e["State"] = S("OR")
    /\ \E e \in Rows(sedfMetadataYYYY) :
          e["SiteName"] = S("Unknown Refuge") /\ IsNull(e["State"])

\* C13 as claimed: the backup step changes no value of a table that the later steps
\* read: the rows of the observation points read by the join and by the pivot, and of
\* the date-filtered events, hold after the step the values they held before it.
C13_BackupLeavesPipelineTables ==
    [][pc = "backup" => /\ sedfObservationPoint'.rows = sedfObservationPoint.rows
                        /\ sedfMetadataYYYY'.rows = sedfMetadataYYYY.rows]_vars

FlockTablesBuilt ==
    HasColumn(dfFlockLong, "individualCount") /\ HasColumn(dfFlockWide, "occurrenceID")
\* The rows of the long flock table of one observation point.
LongRowsOf(id) == SelectSeq(dfFlockLong.rows, LAMBDA r : r["occurrenceID"] = id)
RECURSIVE SumIndividualCount(_)
SumIndividualCount(rows) ==
    IF rows = <<>> THEN 0
    ELSE Head(rows)["individualCount"].int + SumIndividualCount(Tail(rows))

\* C14: once the long and the wide flock table are built, every occurrenceID of the
\* long table is in the wide table; for every row of the wide table the individualCount
\* of its long rows sum to its Total (0 when it has none); and the individualCount of a
\* long row is the wide row's count in the column shortName + "Count".
C14_LongWideAgree ==
    FlockTablesBuilt =>
        /\ \A r \in Rows(dfFlockLong) :
              \E w \in Rows(dfFlockWide) : w["occurrenceID"] = r["occurrenceID"]
        /\ \A i \in 1..Len(dfFlockWide.rows) :
              LET w == dfFlockWide.rows[i]
                  long == LongRowsOf(w["occurrenceID"])
              IN /\ w["Total"] = [int |-> SumIndividualCount(long)]
                 /\ \A k \in 1..Len(long) :
                       /\ long[k]["eventID"] = w["eventID"]
                       /\ long[k]["individualCount"] = w[long[k]["shortName"].str \o "Count"]
                       /\ \A j \in 1..Len(long) :
                             long[j]["shortName"] = long[k]["shortName"] => j = k

\* A point with three species counted beside a point with a count that is null.
C14_Witness ==
    /\ FlockTablesBuilt
    /\ \E w \in Rows(dfFlockWide) :
          /\ Len(LongRowsOf(w["occurrenceID"])) = 3
          /\ w["Total"] = I(4)
          /\ w["DuskyCount"] = I(2)
    /\ \E w \in Rows(dfFlockWide) :
          /\ IsNull(w["CacklingCount"])
          /\ Len(LongRowsOf(w["occurrenceID"])) = 1

====
